---- MODULE Spec2Model ----
(***************************************************************************)
(* Homepage-section ordering of heavy_main.py: the handlers                *)
(* add_homepage_section, edit_homepage_section and delete_homepage_section *)
(* acting on homepage_collection.  Every call to the document store is one *)
(* atomic step; a handler is the sequence of its store calls.              *)
(***************************************************************************)
EXTENDS Integers, Sequences, FiniteSets, TLC

VARIABLES
    homepage,   \* homepage_collection: _id -> document
    nextId,     \* the _id the next insert_one assigns
    pc,         \* per client: the store call its handler makes next
    args,       \* per client: the request of the handler in progress
    loc,        \* per client: the handler's local variables
    result,     \* per client: the response (or HTTPException) of the handler
    pre,        \* per client: homepage_collection when the handler started
    calls,      \* number of requests issued so far
    abandoned   \* the number of the first request whose swap failed after
                \* step 1 and before step 3 (0: none so far)

vars == <<homepage, nextId, pc, args, loc, result, pre, calls, abandoned>>

----------------------------------------------------------------------------
(* Bounds of the model *)

MaxCalls == 2
MaxPos == 4

(* Constants of the program *)

MaxSections == 4
MaxProducts == 12
TempSNo == -1

Clients == {"a", "b"}

----------------------------------------------------------------------------
(* Identifiers.  A raw identifier is the string of the request; ObjectId   *)
(* parses it or raises.                                                    *)

Malformed == {"zz"}

ValidObjectId(raw) == raw \notin Malformed

ObjectId(raw) == [oid |-> raw]

category_collection == {ObjectId("c1"), ObjectId("c2")}

product_collection == {ObjectId("p1"), ObjectId("p2")}

Repeat(x, n) == [i \in 1..n |-> x]

None == <<>>

Some(n) == <<n>>

----------------------------------------------------------------------------
(* Store primitives on a collection held as a function _id -> document *)

CountDocuments(coll) == Cardinality(DOMAIN coll)

FindBySNo(coll, s) == {i \in DOMAIN coll : coll[i].s_no = s}

MaxSNo(coll) == CHOOSE m \in {coll[i].s_no : i \in DOMAIN coll} :
                    \A i \in DOMAIN coll : coll[i].s_no <= m

SetFields(doc, patch) ==
    [f \in DOMAIN doc |-> IF f \in DOMAIN patch THEN patch[f] ELSE doc[f]]

UpdateOne(coll, id, patch) ==
    IF id \in DOMAIN coll
    THEN [coll EXCEPT ![id] = SetFields(coll[id], patch)]
    ELSE coll

InsertOne(coll, id, doc) == [i \in DOMAIN coll \cup {id} |->
                                IF i = id THEN doc ELSE coll[i]]

(* the delete that closes the gap: the sections above move down by one *)
DeleteAndRenumber(coll, id) ==
    [i \in DOMAIN coll \ {id} |->
        IF coll[i].s_no > coll[id].s_no
        THEN [coll[i] EXCEPT !.s_no = coll[i].s_no - 1]
        ELSE coll[i]]

DeleteById(coll, id) == [i \in DOMAIN coll \ {id} |-> coll[i]]

----------------------------------------------------------------------------
(* Responses *)

Ok(msg, sno) == [status |-> 200, detail |-> msg, s_no |-> sno]

HTTPException(code, msg) == [status |-> code, detail |-> msg, s_no |-> None]

(* custom_general_exception_handler: the response to an exception that no  *)
(* handler catches; its message is str(exc)                                *)
ServerError == [status |-> 500, detail |-> "str(exc)", s_no |-> None]

NoResult == [status |-> 0, detail |-> "", s_no |-> None]

NoArgs == [op |-> "none", s_no |-> 0, category_id |-> "", product_ids |-> <<>>,
           new_s_no |-> None]

NoId == 0

NoLoc == [next_s_no |-> 0, current |-> NoId, other |-> NoId, new_sno |-> 0,
          failed_at |-> ""]

EmptyColl == [i \in {} |-> 0]

----------------------------------------------------------------------------
(* Validation of the request body, as add and edit both do it *)

ValidateCategory(category_id) ==
    IF ~ValidObjectId(category_id)
    THEN HTTPException(400, "Invalid category_id")
    ELSE IF ObjectId(category_id) \notin category_collection
    THEN HTTPException(404, "Category not found")
    ELSE NoResult

BadProductIds(product_ids) ==
    {k \in 1..Len(product_ids) : ~ValidObjectId(product_ids[k])}

(* the upper limit of products tested one too early *)
ValidateProductsEarly(product_ids) ==
    IF Len(product_ids) = 0
    THEN HTTPException(400, "At least 1 product required")
    ELSE IF Len(product_ids) >= MaxProducts
    THEN HTTPException(400, "Max 12 products allowed")
    ELSE IF BadProductIds(product_ids) # {}
    THEN HTTPException(400, "Invalid product id")
    ELSE NoResult

ValidateProducts(product_ids) ==
    IF Len(product_ids) = 0
    THEN HTTPException(400, "At least 1 product required")
    ELSE IF Len(product_ids) > MaxProducts
    THEN HTTPException(400, "Max 12 products allowed")
    ELSE IF BadProductIds(product_ids) # {}
    THEN HTTPException(400, "Invalid product id")
    ELSE NoResult

ValidateBody(category_id, product_ids) ==
    IF ValidateCategory(category_id) # NoResult
    THEN ValidateCategory(category_id)
    ELSE ValidateProducts(product_ids)

(* the limit tested one too late *)
CapacityCheckLate(count) ==
    IF count > MaxSections
    THEN HTTPException(400, "Max 4 homepage sections allowed")
    ELSE NoResult

CapacityCheck(count) ==
    IF count >= MaxSections
    THEN HTTPException(400, "Max 4 homepage sections allowed")
    ELSE NoResult

AddChecks(count, category_id, product_ids) ==
    IF CapacityCheck(count) # NoResult
    THEN CapacityCheck(count)
    ELSE ValidateBody(category_id, product_ids)

(* the list stored without its repeated entries, first occurrences kept *)
ProductObjIdsDeduplicated(product_ids) ==
    LET kept[k \in 0..Len(product_ids)] ==
            IF k = 0 THEN << >>
            ELSE IF \E j \in 1..k - 1 : product_ids[j] = product_ids[k]
                 THEN kept[k - 1]
                 ELSE Append(kept[k - 1], ObjectId(product_ids[k]))
    IN  kept[Len(product_ids)]

(* [ObjectId(pid) for pid in data.product_ids] *)
ProductObjIds(product_ids) ==
    [k \in 1..Len(product_ids) |-> ObjectId(product_ids[k])]

(* the position taken from the number of sections instead of the maximum *)
NextSNoByCount(coll) == CountDocuments(coll) + 1

NextSNo(coll) == IF DOMAIN coll = {} THEN 1 ELSE MaxSNo(coll) + 1

(* find().sort("s_no", 1): the documents in ascending s_no *)
RECURSIVE SortBySNo(_, _)
SortBySNo(coll, ids) ==
    IF ids = {} THEN <<>>
    ELSE LET m == CHOOSE i \in ids : \A j \in ids :
                      \/ coll[i].s_no < coll[j].s_no
                      \/ (coll[i].s_no = coll[j].s_no /\ i <= j)
         IN  <<coll[m]>> \o SortBySNo(coll, ids \ {m})

Str(oid) == oid.oid

CategoryName(oid) == IF oid \in category_collection THEN Str(oid) ELSE "N/A"

(* product_collection.find({_id: {$in: products}}): the products found *)
ProductsIn(products) ==
    {p \in product_collection : \E k \in 1..Len(products) : products[k] = p}

(* list_homepage_sections *)
ListSections(coll) ==
    LET sections == SortBySNo(coll, DOMAIN coll)
    IN  [k \in 1..Len(sections) |->
            [s_no |-> sections[k].s_no,
             category_id |-> Str(sections[k].category_id),
             category_name |-> CategoryName(sections[k].category_id),
             products |-> {Str(p) : p \in ProductsIn(sections[k].products)}]]

(* public_homepage: the same read, with the public projection of products *)
PublicHomepage(coll) ==
    LET sections == SortBySNo(coll, DOMAIN coll)
    IN  [k \in 1..Len(sections) |->
            [s_no |-> sections[k].s_no,
             category_id |-> Str(sections[k].category_id),
             category_name |-> CategoryName(sections[k].category_id),
             products |-> {[_id |-> Str(p), name |-> Str(p)] :
                              p \in ProductsIn(sections[k].products)}]]

OrDefault(opt, default) ==
    IF opt = None \/ opt[1] = 0 THEN default ELSE opt[1]

----------------------------------------------------------------------------
(* The collection outlives the server: a run starts on the sections that  *)
(* k earlier add calls left, k from 0 to the limit of sections.           *)
SeedDoc(i) == [s_no |-> i,
               category_id |-> ObjectId(IF i % 2 = 1 THEN "c1" ELSE "c2"),
               products |-> ProductObjIds(IF i % 2 = 1 THEN <<"p1">> ELSE <<"p2", "p2">>)]

Seeded(k) == [i \in 1..k |-> SeedDoc(i)]

Init ==
    /\ \E k \in 0..MaxSections : homepage = Seeded(k) /\ nextId = k + 1
    /\ pc = [c \in Clients |-> "idle"]
    /\ args = [c \in Clients |-> NoArgs]
    /\ loc = [c \in Clients |-> NoLoc]
    /\ result = [c \in Clients |-> NoResult]
    /\ pre = [c \in Clients |-> EmptyColl]
    /\ calls = 0
    /\ abandoned = 0

Finish(c, res) ==
    /\ pc' = [pc EXCEPT ![c] = "done"]
    /\ result' = [result EXCEPT ![c] = res]

Goto(c, label) ==
    /\ pc' = [pc EXCEPT ![c] = label]
    /\ UNCHANGED result

Begin(c, a) ==
    /\ pc[c] = "idle"
    /\ calls < MaxCalls
    /\ calls' = calls + 1
    /\ args' = [args EXCEPT ![c] = a]
    /\ pre' = [pre EXCEPT ![c] = homepage]

(* add_homepage_section: count_documents and the validation of the body *)
AddBegin(c, category_id, product_ids) ==
    /\ Begin(c, [NoArgs EXCEPT !.op = "add", !.category_id = category_id,
                               !.product_ids = product_ids])
    /\ IF AddChecks(CountDocuments(homepage), category_id, product_ids) # NoResult
       THEN Finish(c, AddChecks(CountDocuments(homepage), category_id, product_ids))
       ELSE Goto(c, "add_find_last")
    /\ UNCHANGED <<homepage, nextId, loc, abandoned>>

(* add_homepage_section: find_one(sort s_no descending) *)
AddFindLast(c) ==
    /\ pc[c] = "add_find_last"
    /\ loc' = [loc EXCEPT ![c].next_s_no = NextSNo(homepage)]
    /\ Goto(c, "add_insert")
    /\ UNCHANGED <<homepage, nextId, args, pre, calls, abandoned>>

(* add_homepage_section: insert_one *)
AddInsert(c) ==
    /\ pc[c] = "add_insert"
    /\ homepage' = InsertOne(homepage, nextId,
            [s_no |-> loc[c].next_s_no,
             category_id |-> ObjectId(args[c].category_id),
             products |-> ProductObjIds(args[c].product_ids)])
    /\ nextId' = nextId + 1
    /\ Finish(c, Ok("Homepage section added", Some(loc[c].next_s_no)))
    /\ UNCHANGED <<args, loc, pre, calls, abandoned>>

(* the response is sent; the client may issue its next request *)
Return(c) ==
    /\ pc[c] = "done"
    /\ pc' = [pc EXCEPT ![c] = "idle"]
    /\ args' = [args EXCEPT ![c] = NoArgs]
    /\ loc' = [loc EXCEPT ![c] = NoLoc]
    /\ result' = [result EXCEPT ![c] = NoResult]
    /\ pre' = [pre EXCEPT ![c] = EmptyColl]
    /\ UNCHANGED <<homepage, nextId, calls, abandoned>>

(* the edit that looks its target up before it validates the body *)
EditBeginLookupFirst(c, s_no, category_id, product_ids, new_s_no) ==
    /\ Begin(c, [op |-> "edit", s_no |-> s_no, category_id |-> category_id,
                 product_ids |-> product_ids, new_s_no |-> new_s_no])
    /\ IF FindBySNo(homepage, s_no) = {}
       THEN Finish(c, HTTPException(404, "Homepage section not found"))
       ELSE IF ValidateBody(category_id, product_ids) # NoResult
       THEN Finish(c, ValidateBody(category_id, product_ids))
       ELSE Goto(c, "edit_find_current")
    /\ UNCHANGED <<homepage, nextId, loc, abandoned>>

(* the edit that writes the category to the target before it validates *)
EditBeginUpdateFirst(c, s_no, category_id, product_ids, new_s_no) ==
    /\ Begin(c, [op |-> "edit", s_no |-> s_no, category_id |-> category_id,
                 product_ids |-> product_ids, new_s_no |-> new_s_no])
    /\ homepage' = [i \in DOMAIN homepage |->
                       IF homepage[i].s_no = s_no
                       THEN SetFields(homepage[i], [category_id |-> ObjectId(category_id)])
                       ELSE homepage[i]]
    /\ IF ValidateBody(category_id, product_ids) # NoResult
       THEN Finish(c, ValidateBody(category_id, product_ids))
       ELSE Goto(c, "edit_find_current")
    /\ UNCHANGED <<nextId, loc, abandoned>>

(* edit_homepage_section: the validation of the body *)
EditBegin(c, s_no, category_id, product_ids, new_s_no) ==
    /\ Begin(c, [op |-> "edit", s_no |-> s_no, category_id |-> category_id,
                 product_ids |-> product_ids, new_s_no |-> new_s_no])
    /\ IF ValidateBody(category_id, product_ids) # NoResult
       THEN Finish(c, ValidateBody(category_id, product_ids))
       ELSE Goto(c, "edit_find_current")
    /\ UNCHANGED <<homepage, nextId, loc, abandoned>>

(* the lookup of current without the test that it was found *)
EditFindCurrentUnchecked(c) ==
    /\ pc[c] = "edit_find_current"
    /\ \E current \in IF FindBySNo(homepage, args[c].s_no) = {} THEN {NoId}
                       ELSE FindBySNo(homepage, args[c].s_no) :
            /\ loc' = [loc EXCEPT ![c].current = current,
                                  ![c].new_sno = OrDefault(args[c].new_s_no, args[c].s_no)]
            /\ IF OrDefault(args[c].new_s_no, args[c].s_no) # args[c].s_no
               THEN Goto(c, "edit_find_other")
               ELSE Goto(c, "edit_update_same")
    /\ UNCHANGED <<homepage, nextId, args, pre, calls, abandoned>>

(* edit_homepage_section: current = find_one({s_no}); new_sno = data.s_no or s_no *)
EditFindCurrent(c) ==
    /\ pc[c] = "edit_find_current"
    /\ IF FindBySNo(homepage, args[c].s_no) = {}
       THEN /\ Finish(c, HTTPException(404, "Homepage section not found"))
            /\ UNCHANGED loc
       ELSE \E current \in FindBySNo(homepage, args[c].s_no) :
            /\ loc' = [loc EXCEPT ![c].current = current,
                                  ![c].new_sno = OrDefault(args[c].new_s_no, args[c].s_no)]
            /\ IF OrDefault(args[c].new_s_no, args[c].s_no) # args[c].s_no
               THEN Goto(c, "edit_find_other")
               ELSE Goto(c, "edit_update_same")
    /\ UNCHANGED <<homepage, nextId, args, pre, calls, abandoned>>

(* the edit that never looks for a section at new_sno *)
EditFindOtherSkipped(c) ==
    /\ pc[c] = "edit_find_other"
    /\ Goto(c, "edit_move")
    /\ UNCHANGED <<homepage, nextId, args, loc, pre, calls, abandoned>>

(* edit_homepage_section: other = find_one({s_no: new_sno}) *)
EditFindOther(c) ==
    /\ pc[c] = "edit_find_other"
    /\ IF FindBySNo(homepage, loc[c].new_sno) = {}
       THEN /\ Goto(c, "edit_move")
            /\ UNCHANGED loc
       ELSE \E other \in FindBySNo(homepage, loc[c].new_sno) :
            /\ loc' = [loc EXCEPT ![c].other = other]
            /\ Goto(c, "swap_step1")
    /\ UNCHANGED <<homepage, nextId, args, pre, calls, abandoned>>

FieldsPatch(c) ==
    [category_id |-> ObjectId(args[c].category_id),
     products |-> ProductObjIds(args[c].product_ids)]

FieldsAndSNoPatch(c) ==
    [category_id |-> ObjectId(args[c].category_id),
     products |-> ProductObjIds(args[c].product_ids),
     s_no |-> loc[c].new_sno]

(* Step 1: put "other" to a temp s_no *)
SwapStep1(c) ==
    /\ pc[c] = "swap_step1"
    /\ homepage' = UpdateOne(homepage, loc[c].other, [s_no |-> TempSNo])
    /\ Goto(c, "swap_step2")
    /\ UNCHANGED <<nextId, args, loc, pre, calls, abandoned>>

(* step 2 writing the fields without the new s_no *)
SwapStep2FieldsOnly(c) ==
    /\ pc[c] = "swap_step2"
    /\ homepage' = UpdateOne(homepage, loc[c].current, FieldsPatch(c))
    /\ Goto(c, "swap_step3")
    /\ UNCHANGED <<nextId, args, loc, pre, calls, abandoned>>

(* Step 2: update current doc to new_sno *)
SwapStep2(c) ==
    /\ pc[c] = "swap_step2"
    /\ homepage' = UpdateOne(homepage, loc[c].current, FieldsAndSNoPatch(c))
    /\ Goto(c, "swap_step3")
    /\ UNCHANGED <<nextId, args, loc, pre, calls, abandoned>>

(* step 3 writing new_sno instead of the old s_no *)
SwapStep3ToNew(c) ==
    /\ pc[c] = "swap_step3"
    /\ homepage' = UpdateOne(homepage, loc[c].other, [s_no |-> loc[c].new_sno])
    /\ Finish(c, Ok("Homepage section updated successfully", None))
    /\ UNCHANGED <<nextId, args, loc, pre, calls, abandoned>>

(* Step 3: move "other" to old s_no *)
SwapStep3(c) ==
    /\ pc[c] = "swap_step3"
    /\ homepage' = UpdateOne(homepage, loc[c].other, [s_no |-> args[c].s_no])
    /\ Finish(c, Ok("Homepage section updated successfully", None))
    /\ UNCHANGED <<nextId, args, loc, pre, calls, abandoned>>

(* the move that copies the section to new_sno and keeps the old one *)
EditMoveCopy(c) ==
    /\ pc[c] = "edit_move"
    /\ homepage' = IF loc[c].current \in DOMAIN homepage
                   THEN InsertOne(homepage, nextId,
                            SetFields(homepage[loc[c].current], FieldsAndSNoPatch(c)))
                   ELSE homepage
    /\ Finish(c, Ok("Homepage section updated successfully", None))
    /\ UNCHANGED <<nextId, args, loc, pre, calls, abandoned>>

(* new_sno is free, just update *)
EditMove(c) ==
    /\ pc[c] = "edit_move"
    /\ homepage' = UpdateOne(homepage, loc[c].current, FieldsAndSNoPatch(c))
    /\ Finish(c, Ok("Homepage section updated successfully", None))
    /\ UNCHANGED <<nextId, args, loc, pre, calls, abandoned>>

(* the update that appends the products to the stored ones *)
EditUpdateSameAppend(c) ==
    /\ pc[c] = "edit_update_same"
    /\ homepage' = IF loc[c].current \in DOMAIN homepage
                   THEN UpdateOne(homepage, loc[c].current,
                            [category_id |-> ObjectId(args[c].category_id),
                             products |-> homepage[loc[c].current].products
                                              \o ProductObjIds(args[c].product_ids)])
                   ELSE homepage
    /\ Finish(c, Ok("Homepage section updated successfully", None))
    /\ UNCHANGED <<nextId, args, loc, pre, calls, abandoned>>

(* no change in s_no *)
EditUpdateSame(c) ==
    /\ pc[c] = "edit_update_same"
    /\ homepage' = UpdateOne(homepage, loc[c].current, FieldsPatch(c))
    /\ Finish(c, Ok("Homepage section updated successfully", None))
    /\ UNCHANGED <<nextId, args, loc, pre, calls, abandoned>>

(* delete_homepage_section: delete_one({s_no}) and the test of deleted_count *)
DeleteSection(c, s_no) ==
    /\ Begin(c, [NoArgs EXCEPT !.op = "delete", !.s_no = s_no])
    /\ IF FindBySNo(homepage, s_no) = {}
       THEN /\ Finish(c, HTTPException(404, "Homepage section not found"))
            /\ UNCHANGED homepage
       ELSE \E d \in FindBySNo(homepage, s_no) :
            /\ homepage' = DeleteById(homepage, d)
            /\ Finish(c, Ok("Homepage section deleted successfully", None))
    /\ UNCHANGED <<nextId, loc, abandoned>>

(* the failure that undoes the writes the handler has made *)
StoreFailureRollback(c) ==
    /\ pc[c] \notin {"idle", "done"}
    /\ loc' = [loc EXCEPT ![c].failed_at = pc[c]]
    /\ homepage' = [i \in DOMAIN homepage |->
                       IF i \in DOMAIN pre[c] THEN pre[c][i] ELSE homepage[i]]
    /\ Finish(c, ServerError)
    /\ abandoned' = IF abandoned = 0 /\ pc[c] \in {"swap_step2", "swap_step3"}
                    THEN calls ELSE abandoned
    /\ UNCHANGED <<nextId, args, pre, calls>>

(* a store call raises (the store is unreachable, the write fails): no     *)
(* handler catches it, the calls already made stay made and the request   *)
(* ends with the response of custom_general_exception_handler             *)
StoreFailure(c) ==
    /\ pc[c] \notin {"idle", "done"}
    /\ loc' = [loc EXCEPT ![c].failed_at = pc[c]]
    /\ Finish(c, ServerError)
    /\ abandoned' = IF abandoned = 0 /\ pc[c] \in {"swap_step2", "swap_step3"}
                    THEN calls ELSE abandoned
    /\ UNCHANGED <<homepage, nextId, args, pre, calls>>

----------------------------------------------------------------------------
(* Requests the clients issue *)

SNoInputs == TempSNo .. MaxPos

NewSNoInputs == {None} \cup {Some(n) : n \in SNoInputs}

Body(category_id, product_ids) ==
    [category_id |-> category_id, product_ids |-> product_ids]

BodyA == Body("c1", <<"p1">>)

BodyB == Body("c2", <<"p2", "p2">>)

CategoryInputs == {"c1", "c2", "c9", "zz"}

(* every length from 0 to one past the limit, a missing product, a        *)
(* malformed id, and both after a good entry or past the limit            *)
ProductInputs ==
    {Repeat("p1", n) : n \in 0..MaxProducts + 1}
    \cup { <<"p2", "p2">>, <<"p9">>, <<"zz">>, <<"p1", "p9">>, <<"p1", "zz">>,
           Repeat("zz", MaxProducts + 1) }

(* the bodies of the calls that reorder: two that pass validation, one that does not *)
OrderBodies == {BodyA, BodyB, Body("c9", <<"p1">>)}

(* every combination of a category and a product list *)
AllBodies == {Body(cat, prods) : cat \in CategoryInputs, prods \in ProductInputs}

Step(c, bodies, snos, newsnos) ==
    \/ \E b \in bodies : AddBegin(c, b.category_id, b.product_ids)
    \/ AddFindLast(c)
    \/ AddInsert(c)
    \/ \E s \in snos, b \in bodies, n \in newsnos :
          EditBegin(c, s, b.category_id, b.product_ids, n)
    \/ EditFindCurrent(c)
    \/ EditFindOther(c)
    \/ SwapStep1(c)
    \/ SwapStep2(c)
    \/ SwapStep3(c)
    \/ EditMove(c)
    \/ EditUpdateSame(c)
    \/ \E s \in snos : DeleteSection(c, s)

(* one client: every call runs to completion before the next one starts *)
Next ==
    \/ Step("a", OrderBodies, SNoInputs, NewSNoInputs)
    \/ Return("a")

Spec == Init /\ [][Next]_vars

(* one client whose store calls can fail *)
NextFail ==
    \/ Step("a", OrderBodies, SNoInputs, NewSNoInputs)
    \/ StoreFailure("a")
    \/ Return("a")

SpecFail == Init /\ [][NextFail]_vars

(* one call of one client, with every body a caller can send *)
NextArgs == Step("a", AllBodies, SNoInputs, NewSNoInputs)

SpecArgs == Init /\ [][NextArgs]_vars

(* two clients, one call each: their store calls interleave *)
NextConc == \E c \in Clients : Step(c, {BodyB}, SNoInputs, NewSNoInputs)

SpecConc == Init /\ [][NextConc]_vars

----------------------------------------------------------------------------
(* Vocabulary of the properties *)

SNos(coll) == {coll[i].s_no : i \in DOMAIN coll}

DistinctSNo(coll) ==
    \A i, j \in DOMAIN coll : i # j => coll[i].s_no # coll[j].s_no

ListedSNoDistinct(coll) ==
    \A k, l \in 1..Len(ListSections(coll)) :
        k # l => ListSections(coll)[k].s_no # ListSections(coll)[l].s_no

(* no handler is between two of its store calls *)
Quiescent == \A c \in Clients : pc[c] \in {"idle", "done"}

Completed(c, op) == pc[c] = "done" /\ args[c].op = op

Succeeded(c, op) == Completed(c, op) /\ result[c].status = 200

CapacityExceeded(r) == r = HTTPException(400, "Max 4 homepage sections allowed")

InvalidArgument(r) ==
    /\ r.status = 400
    /\ r.detail \in {"At least 1 product required", "Max 12 products allowed"}

InvalidCategory(r) ==
    \/ r = HTTPException(400, "Invalid category_id")
    \/ r = HTTPException(404, "Category not found")

InvalidProduct(r) == r = HTTPException(400, "Invalid product id")

NotFound(r) == r = HTTPException(404, "Homepage section not found")

CategoryResolves(raw) == ValidObjectId(raw) /\ ObjectId(raw) \in category_collection

ProductResolves(raw) == ValidObjectId(raw) /\ ObjectId(raw) \in product_collection

AllProductsResolve(product_ids) ==
    \A k \in 1..Len(product_ids) : ProductResolves(product_ids[k])

(* the call of client "a" was a swap: edit found another section at new_sno *)
SwapDone == Succeeded("a", "edit") /\ loc["a"].other # NoId

----------------------------------------------------------------------------
(* C1: when every add, edit and delete has run to completion, no two        *)
(* sections that list() returns have the same position.                     *)
C1_DistinctAfterCalls ==
    Quiescent => DistinctSNo(homepage) /\ ListedSNoDistinct(homepage)

(* a swap among four sections has completed after an earlier call moved a *)
(* section away from the positions the adds assigned *)
C1_Witness ==
    /\ SwapDone
    /\ CountDocuments(homepage) = MaxSections
    /\ SNos(homepage) # SNos(Seeded(MaxSections))
    /\ Len(ListSections(homepage)) = MaxSections

(* C2: between the steps of the three-step swap of one edit, started from   *)
(* a state that completed calls reach, no two sections hold the same        *)
(* position.                                                                *)
C2_NoDuplicateBetweenSwapSteps ==
    pc["a"] \in {"swap_step2", "swap_step3"} => DistinctSNo(homepage)

(* C3: two add calls that run concurrently never insert two sections with   *)
(* the same position.                                                       *)
C3_ConcurrentAddsDistinct ==
    (\A c \in Clients : Succeeded(c, "add"))
        => \A c, d \in Clients : c # d => result[c].s_no # result[d].s_no

(* C4: with calls run one at a time the store holds at most 4 sections and  *)
(* list() returns at most 4.                                                *)
C4_AtMostFourSections ==
    /\ CountDocuments(homepage) <= MaxSections
    /\ Len(ListSections(homepage)) <= MaxSections

(* an add was refused while 4 sections existed *)
C4_Witness ==
    /\ Completed("a", "add")
    /\ CapacityExceeded(result["a"])
    /\ CountDocuments(homepage) = MaxSections

(* C5: at most 4 sections exist in every reachable state, also when add     *)
(* calls interleave.                                                        *)
C5_AtMostFourConcurrent == CountDocuments(homepage) <= MaxSections

(* C6: a completed edit(p, q) with p # q and another section at q exchanges *)
(* the two positions: the target ends at q with the new fields, the other   *)
(* ends at p with its fields unchanged, every other section is unchanged    *)
(* and the occupied positions are the same.                                 *)
C6_SwapExchanges ==
    SwapDone =>
        LET t == loc["a"].current
            o == loc["a"].other
            p == args["a"].s_no
            q == loc["a"].new_sno
            before == pre["a"]
        IN  /\ DOMAIN homepage = DOMAIN before
            /\ before[t].s_no = p /\ before[o].s_no = q /\ p # q
            /\ homepage[t] = [s_no |-> q,
                              category_id |-> ObjectId(args["a"].category_id),
                              products |-> ProductObjIds(args["a"].product_ids)]
            /\ homepage[o] = [before[o] EXCEPT !.s_no = p]
            /\ \A i \in DOMAIN homepage \ {t, o} : homepage[i] = before[i]
            /\ SNos(homepage) = SNos(before)

(* sections at 1, 2, 3; edit(1, desired 3) with a new category: the section *)
(* that was at 3 is at 1, the one that was at 1 is at 3 *)
C6_Witness ==
    /\ SwapDone
    /\ pre["a"] = Seeded(3)
    /\ args["a"].s_no = 1 /\ args["a"].new_s_no = Some(3)
    /\ args["a"].category_id = "c2"
    /\ homepage[1].s_no = 3 /\ homepage[3].s_no = 1 /\ homepage[2] = Seeded(3)[2]

(* C7: a successful add inserts exactly one section, at the maximum         *)
(* position of the existing sections plus 1 (1 when there is none), and     *)
(* returns that position; freed positions are not reused.                   *)
C7_AddAtMaxPlusOne ==
    Succeeded("a", "add") =>
        LET before == pre["a"]
            n == IF DOMAIN before = {} THEN 1 ELSE MaxSNo(before) + 1
        IN  /\ result["a"].s_no = Some(n)
            /\ \E i \in DOMAIN homepage \ DOMAIN before :
                  /\ DOMAIN homepage = DOMAIN before \cup {i}
                  /\ homepage[i].s_no = n
            /\ \A i \in DOMAIN before : homepage[i] = before[i]

(* after a delete, with fewer than 4 sections, add assigns a position       *)
(* above 4 and the freed position stays free *)
C7_Witness ==
    /\ Succeeded("a", "add")
    /\ CountDocuments(pre["a"]) < CountDocuments(Seeded(MaxSections))
    /\ 1 \notin SNos(homepage)
    /\ result["a"].s_no = Some(MaxSections + 1)

C9_AddChecksInOrder ==
    Completed("a", "add") =>
        LET r == result["a"]
            cat == args["a"].category_id
            prods == args["a"].product_ids
        IN  IF CountDocuments(pre["a"]) >= MaxSections THEN CapacityExceeded(r)
            ELSE IF ~CategoryResolves(cat) THEN InvalidCategory(r)
            ELSE IF Len(prods) < 1 \/ Len(prods) > MaxProducts THEN InvalidArgument(r)
            ELSE IF ~AllProductsResolve(prods) THEN InvalidProduct(r)
            ELSE r.status = 200

(* C10: with fewer than 4 sections and a resolving category, add fails      *)
(* with InvalidArgument for 0 products and for 13 or more, and succeeds for *)
(* 1 to 12 products that resolve.                                           *)
C10_AddProductCount ==
    (/\ Completed("a", "add")
     /\ CountDocuments(pre["a"]) < MaxSections
     /\ CategoryResolves(args["a"].category_id))
        => LET n == Len(args["a"].product_ids)
           IN  /\ n = 0 => InvalidArgument(result["a"])
               /\ n > MaxProducts => InvalidArgument(result["a"])
               /\ (n \in 1..MaxProducts /\ AllProductsResolve(args["a"].product_ids))
                      => /\ result["a"].status = 200
                         /\ \E i \in DOMAIN homepage :
                               homepage[i].products = ProductObjIds(args["a"].product_ids)

(* an add of exactly 12 products has succeeded *)
C10_Witness ==
    /\ Succeeded("a", "add")
    /\ Len(args["a"].product_ids) = MaxProducts
    /\ \E i \in DOMAIN homepage : Len(homepage[i].products) = MaxProducts

(* C11: add and edit reject with InvalidReference every call in which some  *)
(* product reference does not resolve, so every product reference stored    *)
(* in a section is one of an existing product.                              *)
C11_ProductsResolve ==
    /\ \A c \in Clients :
          (/\ pc[c] # "idle"
           /\ args[c].op \in {"add", "edit"}
           /\ ValidateCategory(args[c].category_id) = NoResult
           /\ Len(args[c].product_ids) \in 1..MaxProducts
           /\ ~AllProductsResolve(args[c].product_ids))
              => InvalidProduct(result[c])
    /\ \A i \in DOMAIN homepage : \A k \in 1..Len(homepage[i].products) :
          homepage[i].products[k] \in product_collection

(* no entry of list() or of the public listing is at the sentinel value *)
SentinelNeverListed ==
    /\ \A k \in 1..Len(ListSections(homepage)) :
          ListSections(homepage)[k].s_no # TempSNo
    /\ \A k \in 1..Len(PublicHomepage(homepage)) :
          PublicHomepage(homepage)[k].s_no # TempSNo

(* C12, for a read between step 1 and step 3 of a swap of two positions    *)
(* from 1 up: neither listing returns a section at the sentinel value.      *)
C12_SentinelNotListedInSwap ==
    (/\ pc["a"] \in {"swap_step2", "swap_step3"}
     /\ \A i \in DOMAIN pre["a"] : pre["a"][i].s_no >= 1
     /\ loc["a"].new_sno >= 1)
        => SentinelNeverListed

(* the fields an edit of client c asks for *)
Requested(c) == [category_id |-> ObjectId(args[c].category_id),
                 products |-> ProductObjIds(args[c].product_ids)]

(* the edit of client "a" succeeded without a change of position: its       *)
(* desired position was null, 0 or the target position *)
SamePositionDone ==
    Succeeded("a", "edit") /\ loc["a"].new_sno = args["a"].s_no

(* C13: an edit whose desired position is the target's current position     *)
(* changes only that section's category and products and no position; the   *)
(* same call run on its own result leaves the store as it is.               *)
C13_SamePositionEdit ==
    SamePositionDone =>
        LET t == loc["a"].current
            before == pre["a"]
        IN  /\ DOMAIN homepage = DOMAIN before
            /\ before[t].s_no = args["a"].s_no
            /\ homepage[t] = [s_no |-> before[t].s_no,
                              category_id |-> Requested("a").category_id,
                              products |-> Requested("a").products]
            /\ \A i \in DOMAIN homepage \ {t} : homepage[i] = before[i]
            /\ (/\ before[t].category_id = Requested("a").category_id
                /\ before[t].products = Requested("a").products)
                   => homepage = before

(* the second of two equal edits: the section already held the requested    *)
(* fields, which an earlier edit (not the first add) had given it *)
C13_Witness ==
    /\ SamePositionDone
    /\ calls = 2
    /\ LET t == loc["a"].current
       IN  /\ pre["a"][t].category_id = Requested("a").category_id
           /\ pre["a"][t].products = Requested("a").products
           /\ t \in DOMAIN Seeded(MaxSections)
           /\ pre["a"][t] # Seeded(MaxSections)[t]
           /\ pre["a"][t].s_no = Seeded(MaxSections)[t].s_no
           /\ homepage = pre["a"]

(* C14: delete(position) removes exactly the one section at that position   *)
(* and leaves every other section as it was, with no renumbering; when no   *)
(* section is at that position it fails with NotFound and the store is      *)
(* unchanged.                                                               *)
C14_DeleteFrame ==
    Completed("a", "delete") =>
        LET before == pre["a"]
            hit == FindBySNo(before, args["a"].s_no)
        IN  IF hit = {}
            THEN NotFound(result["a"]) /\ homepage = before
            ELSE /\ result["a"].status = 200
                 /\ Cardinality(hit) = 1
                 /\ DOMAIN homepage = DOMAIN before \ hit
                 /\ \A i \in DOMAIN homepage : homepage[i] = before[i]

(* a delete below other sections: they keep their positions, a gap stays *)
C14_Witness ==
    /\ Succeeded("a", "delete")
    /\ CountDocuments(homepage) >= 2
    /\ \A i \in DOMAIN homepage : homepage[i].s_no > args["a"].s_no
    /\ args["a"].s_no \notin SNos(homepage)

(* C15: under every interleaving of the store calls of two concurrent edit  *)
(* calls, no reachable state has two sections at the same position.         *)
(* Stated for edits whose target and desired positions are from 1 up.      *)
C15_ConcurrentEditsDistinct ==
    (\A c \in Clients :
        /\ args[c].op = "edit"
        /\ args[c].s_no >= 1
        /\ OrDefault(args[c].new_s_no, args[c].s_no) >= 1)
        => DistinctSNo(homepage)

(* C16: at the end of every add, edit and delete every section's position   *)
(* is an integer from 1 up, whatever desired_position the caller passes.    *)
C16_PositionsFromOne ==
    Quiescent => \A i \in DOMAIN homepage : homepage[i].s_no >= 1

(* the positions of the sections of coll are exactly 1..n *)
Dense(coll) == SNos(coll) = 1..CountDocuments(coll)

(* C17: at the end of every operation, with n sections present, the set of  *)
(* their positions is exactly 1..n.                                         *)
C17_DenseAfterCalls == Quiescent => Dense(homepage)

(* C17 as amended: an add, a swap and an edit that keeps the position, run  *)
(* on sections at exactly 1..n, leave the positions exactly 1..n (1..n+1    *)
(* after the add); a delete of a position below the highest leaves a gap    *)
(* that stays.                                                              *)
C17_DenseKeptByAddAndSwap ==
    (pc["a"] = "done" /\ Dense(pre["a"])) =>
        /\ (Succeeded("a", "add") \/ SwapDone \/ SamePositionDone)
              => Dense(homepage)
        /\ (Succeeded("a", "delete") /\ args["a"].s_no < CountDocuments(pre["a"]))
              => ~Dense(homepage)

(* an add after a swap: the positions are 1..n with the sections in another *)
(* order than the adds gave them *)
C17_Witness ==
    /\ Succeeded("a", "add")
    /\ Dense(pre["a"])
    /\ Dense(homepage)
    /\ CountDocuments(pre["a"]) >= 2
    /\ pre["a"] # Seeded(CountDocuments(pre["a"]))
    /\ \E i \in DOMAIN pre["a"] : pre["a"][i].s_no # Seeded(MaxSections)[i].s_no

(* the edit of client "a" moved its target to a position that was free *)
MoveDone ==
    /\ Succeeded("a", "edit")
    /\ loc["a"].new_sno # args["a"].s_no
    /\ loc["a"].other = NoId

(* C18: edit(p, q) with p # q and no section at q updates the target's      *)
(* category, products and position in one store update; afterwards no       *)
(* section holds p, the target holds q and the other sections are           *)
(* unchanged.                                                               *)
C18_MoveToFreePosition ==
    /\ pc["a"] = "edit_move" => homepage = pre["a"]
    /\ MoveDone =>
          LET t == loc["a"].current
              before == pre["a"]
          IN  /\ DOMAIN homepage = DOMAIN before
              /\ before[t].s_no = args["a"].s_no
              /\ FindBySNo(before, loc["a"].new_sno) = {}
              /\ homepage[t] = [s_no |-> loc["a"].new_sno,
                                category_id |-> Requested("a").category_id,
                                products |-> Requested("a").products]
              /\ \A i \in DOMAIN homepage \ {t} : homepage[i] = before[i]
              /\ FindBySNo(homepage, args["a"].s_no) = {}
              /\ FindBySNo(homepage, loc["a"].new_sno) = {t}

(* sections at 1 and 2; edit(1, desired 4) with new fields: position 1 is   *)
(* free, the target is at 4 *)
C18_Witness ==
    /\ MoveDone
    /\ pre["a"] = Seeded(2)
    /\ args["a"].s_no = 1 /\ args["a"].new_s_no = Some(4)
    /\ homepage[1] = [s_no |-> 4, category_id |-> ObjectId("c2"),
                      products |-> ProductObjIds(<<"p2", "p2">>)]
    /\ homepage[2] = Seeded(2)[2]

(* C19: edit uses target_position as the desired position when              *)
(* desired_position is null or omitted, and the supplied value for every    *)
(* integer desired_position the caller supplies.                            *)
C19_DesiredPositionUsed ==
    (args["a"].op = "edit" /\ loc["a"].current # NoId) =>
        loc["a"].new_sno = IF args["a"].new_s_no = None
                           THEN args["a"].s_no
                           ELSE args["a"].new_s_no[1]

(* C19 without the value 0: the position edit uses is the target position   *)
(* for null and the supplied value for every integer other than 0.          *)
C19_ExceptZero ==
    (args["a"].op = "edit" /\ loc["a"].current # NoId
        /\ args["a"].new_s_no # Some(0)) =>
        loc["a"].new_sno = IF args["a"].new_s_no = None
                           THEN args["a"].s_no
                           ELSE args["a"].new_s_no[1]

StoreFailed(r) == r = ServerError

(* the edit of client "a" failed after step 1 of a swap, before step 3 ran *)
SwapAbandoned ==
    /\ Completed("a", "edit")
    /\ loc["a"].failed_at \in {"swap_step2", "swap_step3"}

(* C20: when a store write fails after step 1 and before step 3 of a swap,  *)
(* nothing is rolled back: `other` stays at the sentinel position, the      *)
(* steps already applied stay applied, and the caller gets the failure.     *)
C20_NoRollback ==
    SwapAbandoned =>
        LET t == loc["a"].current
            o == loc["a"].other
            before == pre["a"]
        IN  /\ StoreFailed(result["a"])
            /\ DOMAIN homepage = DOMAIN before
            /\ homepage[o] = [before[o] EXCEPT !.s_no = TempSNo]
            /\ homepage[t] = IF loc["a"].failed_at = "swap_step2"
                             THEN before[t]
                             ELSE [s_no |-> loc["a"].new_sno,
                                   category_id |-> Requested("a").category_id,
                                   products |-> Requested("a").products]
            /\ \A i \in DOMAIN homepage \ {t, o} : homepage[i] = before[i]

(* step 3 failed: the target is at the desired position with its new        *)
(* fields, the other section is left at the sentinel, position p is free *)
C20_Witness ==
    /\ SwapAbandoned
    /\ loc["a"].failed_at = "swap_step3"
    /\ pre["a"] = Seeded(3)
    /\ homepage[loc["a"].other].s_no = TempSNo
    /\ homepage[loc["a"].current].s_no = loc["a"].new_sno
    /\ args["a"].s_no \notin SNos(homepage)

(* the sections of coll whose position is in the valid range, from 1 up *)
ValidPositioned(coll) == {i \in DOMAIN coll : coll[i].s_no >= 1}

(* C21: after every edit that runs all its steps to completion no section   *)
(* is left at the sentinel position, and the number of sections with a      *)
(* valid position equals the number of sections in the store.               *)
C21_NoSectionLeftAtSentinel ==
    Succeeded("a", "edit") =>
        /\ \A i \in DOMAIN homepage : homepage[i].s_no # TempSNo
        /\ Cardinality(ValidPositioned(homepage)) = CountDocuments(homepage)

(* C21 for the edits that C16 does not reach: every section was at a        *)
(* position from 1 up and the position the edit uses is from 1 up.          *)
C21_FromValidPositions ==
    (/\ Succeeded("a", "edit")
     /\ \A i \in DOMAIN pre["a"] : pre["a"][i].s_no >= 1
     /\ loc["a"].new_sno >= 1)
        => /\ \A i \in DOMAIN homepage : homepage[i].s_no # TempSNo
           /\ Cardinality(ValidPositioned(homepage)) = CountDocuments(homepage)

(* the first request abandoned a swap and the second request is in progress *)
(* or has ended; the position the second request uses is from 1 up *)
AfterAbandonedSwap ==
    /\ abandoned = 1
    /\ calls = 2
    /\ args["a"].op = "edit" => OrDefault(args["a"].new_s_no, args["a"].s_no) >= 1

(* C22: after a swap abandoned between step 1 and step 3 the positions are  *)
(* pairwise distinct in every state the later add, edit and delete calls    *)
(* reach, the later swaps made while a section is parked at the sentinel    *)
(* included.                                                                *)
C22_DistinctAfterAbandonedSwap ==
    AfterAbandonedSwap => DistinctSNo(homepage)

(* the parts of C22 that hold: the positions are pairwise distinct in the   *)
(* state the abandoned swap leaves, and an edit that targets the sentinel   *)
(* position with a free desired position moves the parked section there.    *)
C22_ParkedSectionReclaimed ==
    /\ (SwapAbandoned /\ calls = 1) => DistinctSNo(homepage)
    /\ (AfterAbandonedSwap /\ MoveDone /\ args["a"].s_no = TempSNo)
          => /\ homepage[loc["a"].current].s_no = loc["a"].new_sno
             /\ pre["a"][loc["a"].current].s_no = TempSNo
             /\ \A i \in DOMAIN homepage : homepage[i].s_no >= 1
             /\ DistinctSNo(homepage)

(* the stored sequence is the sequence of the request, entry by entry *)
StoredAsGiven(products, product_ids) ==
    /\ Len(products) = Len(product_ids)
    /\ \A k \in 1..Len(product_ids) : products[k] = ObjectId(product_ids[k])

(* C23: in every reachable state every stored section has a products        *)
(* sequence of length 1 to 12; add and edit store the sequence as given,    *)
(* without removing duplicate entries.                                      *)
C23_ProductsStoredAsGiven ==
    /\ \A i \in DOMAIN homepage : Len(homepage[i].products) \in 1..MaxProducts
    /\ Succeeded("a", "add") =>
          /\ DOMAIN homepage # DOMAIN pre["a"]
          /\ \A i \in DOMAIN homepage \ DOMAIN pre["a"] :
                StoredAsGiven(homepage[i].products, args["a"].product_ids)
    /\ Succeeded("a", "edit") =>
          StoredAsGiven(homepage[loc["a"].current].products, args["a"].product_ids)

(* an edit with twelve times the same product: all twelve entries stored *)
C23_Witness ==
    /\ Succeeded("a", "edit")
    /\ args["a"].product_ids = Repeat("p1", MaxProducts)
    /\ Len(homepage[loc["a"].current].products) = MaxProducts
    /\ \A k \in 1..MaxProducts :
          homepage[loc["a"].current].products[k] = ObjectId("p1")

(* C24: list() returns every section in ascending position order and        *)
(* renders, for each section, one entry per stored reference, a reference   *)
(* that does not resolve under a placeholder name instead of being dropped. *)
(* Stated for the listing read after the first add.                        *)
C24_OneEntryPerReference ==
    (Succeeded("a", "add") /\ pre["a"] = EmptyColl) =>
        LET sections == SortBySNo(homepage, DOMAIN homepage)
            listed == ListSections(homepage)
            public == PublicHomepage(homepage)
        IN  /\ Len(listed) = CountDocuments(homepage)
            /\ Len(public) = CountDocuments(homepage)
            /\ \A k \in 1..Len(listed) :
                  /\ k > 1 => listed[k - 1].s_no <= listed[k].s_no
                  /\ Cardinality(listed[k].products) = Len(sections[k].products)
                  /\ Cardinality(public[k].products) = Len(sections[k].products)

(* the add or edit of client "a" ended in a validation, capacity or         *)
(* NotFound error *)
Rejected ==
    /\ pc["a"] = "done"
    /\ args["a"].op \in {"add", "edit"}
    /\ \/ CapacityExceeded(result["a"])
       \/ InvalidCategory(result["a"])
       \/ InvalidArgument(result["a"])
       \/ InvalidProduct(result["a"])
       \/ NotFound(result["a"])

(* C25: an add or edit call that ends in a validation, capacity or NotFound *)
(* error performs no write: the set of sections and each section's          *)
(* position, category and products are as they were before the call.        *)
C25_RejectedCallWritesNothing ==
    /\ Rejected => homepage = pre["a"]
    /\ (pc["a"] = "done" /\ args["a"].op \in {"add", "edit"}
           /\ result["a"].status \in {400, 404}) => Rejected

(* an edit of an existing section rejected for its category: the section    *)
(* keeps its own category *)
C25_Witness ==
    /\ Rejected
    /\ args["a"].op = "edit"
    /\ InvalidCategory(result["a"])
    /\ \E i \in FindBySNo(homepage, args["a"].s_no) :
          /\ homepage[i].category_id # ObjectId(args["a"].category_id)
          /\ homepage[i] = pre["a"][i]
    /\ homepage = pre["a"]

(* the body of the edit of client "a" has a category that does not resolve  *)
(* or a number of products outside 1..12 *)
EditBodyRejected ==
    /\ args["a"].op = "edit"
    /\ \/ ~CategoryResolves(args["a"].category_id)
       \/ Len(args["a"].product_ids) \notin 1..MaxProducts

(* C26: in edit the category and product validations run before the target  *)
(* lookup: an edit with an unresolvable category or a product count outside *)
(* 1..12 returns that validation error, not NotFound, also when no section  *)
(* is at the target position.                                               *)
C26_ValidationBeforeLookup ==
    EditBodyRejected =>
        /\ pc["a"] = "done"
        /\ loc["a"].current = NoId
        /\ ~NotFound(result["a"])
        /\ IF ~ValidObjectId(args["a"].category_id)
           THEN result["a"] = HTTPException(400, "Invalid category_id")
           ELSE IF ~CategoryResolves(args["a"].category_id)
           THEN result["a"] = HTTPException(404, "Category not found")
           ELSE IF Len(args["a"].product_ids) = 0
           THEN result["a"] = HTTPException(400, "At least 1 product required")
           ELSE result["a"] = HTTPException(400, "Max 12 products allowed")

(* thirteen products for a position no section holds: the answer is the     *)
(* product limit, not NotFound *)
C26_Witness ==
    /\ EditBodyRejected
    /\ pc["a"] = "done"
    /\ FindBySNo(homepage, args["a"].s_no) = {}
    /\ CountDocuments(homepage) >= 1
    /\ CategoryResolves(args["a"].category_id)
    /\ Len(args["a"].product_ids) = MaxProducts + 1
    /\ result["a"] = HTTPException(400, "Max 12 products allowed")

(* the step on which the edit of client "a" returns success, while the      *)
(* other client deletes; the positions the edit names are from 1 up *)
EditReturnsSuccess ==
    /\ args["a"].op = "edit"
    /\ pc["a"] # "done"
    /\ pc'["a"] = "done"
    /\ result'["a"].status = 200
    /\ args["a"].s_no >= 1
    /\ loc["a"].new_sno >= 1
    /\ args["b"].op \in {"none", "delete"}

(* C27: whenever edit returns success the section it targeted is in the     *)
(* store with the requested category, products and desired position, and no *)
(* other section was moved for a target that is gone, also when a delete of *)
(* the target or of `other` runs between edit's lookups and its updates.    *)
C27_SuccessMeansApplied ==
    [][EditReturnsSuccess =>
          /\ loc["a"].current \in DOMAIN homepage'
          /\ homepage'[loc["a"].current] =
                [s_no |-> loc["a"].new_sno,
                 category_id |-> Requested("a").category_id,
                 products |-> Requested("a").products]]_vars

====
